---------------------------- MODULE Spec2Model ----------------------------
(***************************************************************************)
(* A model of the SEED-128 block cipher of package dkrcrypt (seed.go).     *)
(*                                                                         *)
(* A uint32 is a sequence of 4 bytes, most significant first, so that      *)
(* every word operation keeps its 32-bit width: addition and subtraction   *)
(* ripple a carry through the bytes and drop the carry out of bit 31.      *)
(* A []byte is a sequence of bytes.                                        *)
(***************************************************************************)
EXTENDS Integers, Sequences, FiniteSets, TLC

VARIABLES
  c,        \* the SEEDCipher NewSEED allocates: [k0, k1], each indexed 0..16
  ret,      \* NewSEED's first result: "none" before the call, "nil" or "c"
  err,      \* NewSEED's second result: <<>> for nil, <<n>> for KeySizeError(n)
  key,      \* the key argument of NewSEED
  op,       \* the last of NewSEED, Encrypt, Decrypt called
  src,      \* the src argument of the last Encrypt/Decrypt call
  dst,      \* the dst buffer after the last Encrypt/Decrypt call
  dst0,     \* the dst buffer as the caller passed it to that call
  outcome,  \* how that call ended: "ok" (returned normally) or "panic"
  nread,    \* bytes of src that call decoded into l0, l1, r0, r1
  nwritten, \* bytes that call copied into dst
  resets,   \* Reset calls since construction
  at,       \* the value of resets when the last Encrypt/Decrypt call ran
  prev,     \* the call whose dst buffer was handed on as this call's src
  chain,    \* how many calls in a row took their src from the previous dst
  pc,       \* per goroutine: position in its Encrypt/Decrypt call
  loc,      \* per goroutine: its op, src, dst and locals <<l0, l1, r0, r1>>, i
  fin,      \* arguments of the round function: <<k0, k1, r0, r1>>
  fout      \* the results of the calls of f on fin, in order

apiVars == <<ret, err, key, op, src, dst, dst0, outcome, nread, nwritten,
             resets, at, prev, chain>>
concVars == <<pc, loc>>
fVars == <<fin, fout>>
vars == <<c, apiVars, concVars, fVars>>

---------------------------------------------------------------------------
(* uint32 arithmetic *)

\* the values of type uint32: four bytes, the most significant first. The
\* operators of Go on uint32 are functions on them: like Go, a function
\* application works out its arguments before the function's body.
uint32 == [1..4 -> 0..255]

Zero32 == <<0, 0, 0, 0>>

RECURSIVE XorBits(_, _, _)
XorBits(a, b, n) ==
  IF n = 0 THEN 0
  ELSE ((a + b) % 2) + 2 * XorBits(a \div 2, b \div 2, n - 1)

RECURSIVE OrBits(_, _, _)
OrBits(a, b, n) ==
  IF n = 0 THEN 0
  ELSE (IF a % 2 = 1 \/ b % 2 = 1 THEN 1 ELSE 0)
         + 2 * OrBits(a \div 2, b \div 2, n - 1)

RECURSIVE AndBits(_, _, _)
AndBits(a, b, n) ==
  IF n = 0 THEN 0
  ELSE (IF a % 2 = 1 /\ b % 2 = 1 THEN 1 ELSE 0)
         + 2 * AndBits(a \div 2, b \div 2, n - 1)

\* the byte-wise exclusive or, or and and, tabulated once
XorTab == [a \in 0..255 |-> [b \in 0..255 |-> XorBits(a, b, 8)]]
OrTab == [a \in 0..255 |-> [b \in 0..255 |-> OrBits(a, b, 8)]]
AndTab == [a \in 0..255 |-> [b \in 0..255 |-> AndBits(a, b, 8)]]

\* x ^ y
Xor32[x, y \in uint32] ==
  <<XorTab[x[1]][y[1]], XorTab[x[2]][y[2]], XorTab[x[3]][y[3]], XorTab[x[4]][y[4]]>>

\* x | y
Or32[x, y \in uint32] ==
  <<OrTab[x[1]][y[1]], OrTab[x[2]][y[2]], OrTab[x[3]][y[3]], OrTab[x[4]][y[4]]>>

\* x & y
And32[x, y \in uint32] ==
  <<AndTab[x[1]][y[1]], AndTab[x[2]][y[2]], AndTab[x[3]][y[3]], AndTab[x[4]][y[4]]>>

\* x + y on uint32: the carry out of bit 31 is dropped
Add32[x, y \in uint32] ==
  LET s4 == x[4] + y[4]
      s3 == x[3] + y[3] + (s4 \div 256)
      s2 == x[2] + y[2] + (s3 \div 256)
      s1 == x[1] + y[1] + (s2 \div 256)
  IN  <<s1 % 256, s2 % 256, s3 % 256, s4 % 256>>

\* x - y on uint32: wraps around below zero
Sub32[x, y \in uint32] ==
  LET d4 == 256 + x[4] - y[4]
      d3 == 255 + x[3] - y[3] + (d4 \div 256)
      d2 == 255 + x[2] - y[2] + (d3 \div 256)
      d1 == 255 + x[1] - y[1] + (d2 \div 256)
  IN  <<d1 % 256, d2 % 256, d3 % 256, d4 % 256>>

\* x << 8, x >> 8, x << 24, x >> 24 on uint32
Shl8[x \in uint32] == <<x[2], x[3], x[4], 0>>
Shr8[x \in uint32] == <<0, x[1], x[2], x[3]>>
Shl24[x \in uint32] == <<x[4], 0, 0, 0>>
Shr24[x \in uint32] == <<0, 0, 0, x[1]>>

MaskHi == <<255, 0, 0, 0>>
MaskLo == <<0, 0, 0, 255>>

---------------------------------------------------------------------------
(* the round constants and the extended S-boxes *)

kc ==
  <<
    <<0,0,0,0>>, <<158,55,121,185>>, <<60,110,243,115>>, <<120,221,230,230>>,
    <<241,187,205,204>>, <<227,119,155,153>>, <<198,239,55,51>>, <<141,222,110,103>>,
    <<27,188,220,207>>, <<55,121,185,158>>, <<110,243,115,60>>, <<221,230,230,120>>,
    <<187,205,204,241>>, <<119,155,153,227>>, <<239,55,51,198>>, <<222,110,103,141>>,
    <<188,220,207,27>>
  >>

ss0 ==
  <<
    <<41,137,161,168>>, <<5,133,129,132>>, <<22,198,210,212>>, <<19,195,211,208>>,
    <<20,68,80,84>>, <<29,13,17,28>>, <<44,140,160,172>>, <<37,5,33,36>>,
    <<29,77,81,92>>, <<3,67,67,64>>, <<24,8,16,24>>, <<30,14,18,28>>,
    <<17,65,81,80>>, <<60,204,240,252>>, <<10,202,194,200>>, <<35,67,99,96>>,
    <<40,8,32,40>>, <<4,68,64,68>>, <<32,0,32,32>>, <<29,141,145,156>>,
    <<32,192,224,224>>, <<34,194,226,224>>, <<8,200,192,200>>, <<23,7,19,20>>,
    <<37,133,161,164>>, <<15,143,131,140>>, <<3,3,3,0>>, <<59,75,115,120>>,
    <<59,139,179,184>>, <<19,3,19,16>>, <<18,194,210,208>>, <<46,206,226,236>>,
    <<48,64,112,112>>, <<12,140,128,140>>, <<63,15,51,60>>, <<40,136,160,168>>,
    <<50,2,50,48>>, <<29,205,209,220>>, <<54,198,242,244>>, <<52,68,112,116>>,
    <<44,204,224,236>>, <<21,133,145,148>>, <<11,11,3,8>>, <<23,71,83,84>>,
    <<28,76,80,92>>, <<27,75,83,88>>, <<61,141,177,188>>, <<1,1,1,0>>,
    <<36,4,32,36>>, <<28,12,16,28>>, <<51,67,115,112>>, <<24,136,144,152>>,
    <<16,0,16,16>>, <<12,204,192,204>>, <<50,194,242,240>>, <<25,201,209,216>>,
    <<44,12,32,44>>, <<39,199,227,228>>, <<50,66,114,112>>, <<3,131,131,128>>,
    <<27,139,147,152>>, <<17,193,209,208>>, <<6,134,130,132>>, <<9,201,193,200>>,
    <<32,64,96,96>>, <<16,64,80,80>>, <<35,131,163,160>>, <<43,203,227,232>>,
    <<13,13,1,12>>, <<54,134,178,180>>, <<30,142,146,156>>, <<15,79,67,76>>,
    <<55,135,179,180>>, <<26,74,82,88>>, <<6,198,194,196>>, <<56,72,112,120>>,
    <<38,134,162,164>>, <<18,2,18,16>>, <<47,143,163,172>>, <<21,197,209,212>>,
    <<33,65,97,96>>, <<3,195,195,192>>, <<52,132,176,180>>, <<1,65,65,64>>,
    <<18,66,82,80>>, <<61,77,113,124>>, <<13,141,129,140>>, <<8,8,0,8>>,
    <<31,15,19,28>>, <<25,137,145,152>>, <<0,0,0,0>>, <<25,9,17,24>>,
    <<4,4,0,4>>, <<19,67,83,80>>, <<55,199,243,244>>, <<33,193,225,224>>,
    <<61,205,241,252>>, <<54,70,114,116>>, <<47,15,35,44>>, <<39,7,35,36>>,
    <<48,128,176,176>>, <<11,139,131,136>>, <<14,14,2,12>>, <<43,139,163,168>>,
    <<34,130,162,160>>, <<46,78,98,108>>, <<19,131,147,144>>, <<13,77,65,76>>,
    <<41,73,97,104>>, <<60,76,112,124>>, <<9,9,1,8>>, <<10,10,2,8>>,
    <<63,143,179,188>>, <<47,207,227,236>>, <<51,195,243,240>>, <<5,197,193,196>>,
    <<7,135,131,132>>, <<20,4,16,20>>, <<62,206,242,252>>, <<36,68,96,100>>,
    <<30,206,210,220>>, <<46,14,34,44>>, <<11,75,67,72>>, <<26,10,18,24>>,
    <<6,6,2,4>>, <<33,1,33,32>>, <<43,75,99,104>>, <<38,70,98,100>>,
    <<2,2,2,0>>, <<53,197,241,244>>, <<18,130,146,144>>, <<10,138,130,136>>,
    <<12,12,0,12>>, <<51,131,179,176>>, <<62,78,114,124>>, <<16,192,208,208>>,
    <<58,74,114,120>>, <<7,71,67,68>>, <<22,134,146,148>>, <<37,197,225,228>>,
    <<38,6,34,36>>, <<0,128,128,128>>, <<45,141,161,172>>, <<31,207,211,220>>,
    <<33,129,161,160>>, <<48,0,48,48>>, <<55,7,51,52>>, <<46,142,162,172>>,
    <<54,6,50,52>>, <<21,5,17,20>>, <<34,2,34,32>>, <<56,8,48,56>>,
    <<52,196,240,244>>, <<39,135,163,164>>, <<5,69,65,68>>, <<12,76,64,76>>,
    <<1,129,129,128>>, <<41,201,225,232>>, <<4,132,128,132>>, <<23,135,147,148>>,
    <<53,5,49,52>>, <<11,203,195,200>>, <<14,206,194,204>>, <<60,12,48,60>>,
    <<49,65,113,112>>, <<17,1,17,16>>, <<7,199,195,196>>, <<9,137,129,136>>,
    <<53,69,113,116>>, <<59,203,243,248>>, <<26,202,210,216>>, <<56,200,240,248>>,
    <<20,132,144,148>>, <<25,73,81,88>>, <<2,130,130,128>>, <<4,196,192,196>>,
    <<63,207,243,252>>, <<9,73,65,72>>, <<57,9,49,56>>, <<39,71,99,100>>,
    <<0,192,192,192>>, <<15,207,195,204>>, <<23,199,211,212>>, <<56,136,176,184>>,
    <<15,15,3,12>>, <<14,142,130,140>>, <<2,66,66,64>>, <<35,3,35,32>>,
    <<17,129,145,144>>, <<44,76,96,108>>, <<27,203,211,216>>, <<36,132,160,164>>,
    <<52,4,48,52>>, <<49,193,241,240>>, <<8,72,64,72>>, <<2,194,194,192>>,
    <<47,79,99,108>>, <<61,13,49,60>>, <<45,13,33,44>>, <<0,64,64,64>>,
    <<62,142,178,188>>, <<62,14,50,60>>, <<60,140,176,188>>, <<1,193,193,192>>,
    <<42,138,162,168>>, <<58,138,178,184>>, <<14,78,66,76>>, <<21,69,81,84>>,
    <<59,11,51,56>>, <<28,204,208,220>>, <<40,72,96,104>>, <<63,79,115,124>>,
    <<28,140,144,156>>, <<24,200,208,216>>, <<10,74,66,72>>, <<22,70,82,84>>,
    <<55,71,115,116>>, <<32,128,160,160>>, <<45,205,225,236>>, <<6,70,66,68>>,
    <<53,133,177,180>>, <<43,11,35,40>>, <<37,69,97,100>>, <<58,202,242,248>>,
    <<35,195,227,224>>, <<57,137,177,184>>, <<49,129,177,176>>, <<31,143,147,156>>,
    <<30,78,82,92>>, <<57,201,241,248>>, <<38,198,226,228>>, <<50,130,178,176>>,
    <<49,1,49,48>>, <<42,202,226,232>>, <<45,77,97,108>>, <<31,79,83,92>>,
    <<36,196,224,228>>, <<48,192,240,240>>, <<13,205,193,204>>, <<8,136,128,136>>,
    <<22,6,18,20>>, <<58,10,50,56>>, <<24,72,80,88>>, <<20,196,208,212>>,
    <<34,66,98,96>>, <<41,9,33,40>>, <<7,7,3,4>>, <<51,3,51,48>>,
    <<40,200,224,232>>, <<27,11,19,24>>, <<5,5,1,4>>, <<57,73,113,120>>,
    <<16,128,144,144>>, <<42,74,98,104>>, <<42,10,34,40>>, <<26,138,146,152>>
  >>

ss1 ==
  <<
    <<56,56,8,48>>, <<232,40,200,224>>, <<44,45,13,33>>, <<164,38,134,162>>,
    <<204,15,207,195>>, <<220,30,206,210>>, <<176,51,131,179>>, <<184,56,136,176>>,
    <<172,47,143,163>>, <<96,32,64,96>>, <<84,21,69,81>>, <<196,7,199,195>>,
    <<68,4,68,64>>, <<108,47,79,99>>, <<104,43,75,99>>, <<88,27,75,83>>,
    <<192,3,195,195>>, <<96,34,66,98>>, <<48,51,3,51>>, <<180,53,133,177>>,
    <<40,41,9,33>>, <<160,32,128,160>>, <<224,34,194,226>>, <<164,39,135,163>>,
    <<208,19,195,211>>, <<144,17,129,145>>, <<16,17,1,17>>, <<4,6,6,2>>,
    <<28,28,12,16>>, <<188,60,140,176>>, <<52,54,6,50>>, <<72,11,75,67>>,
    <<236,47,207,227>>, <<136,8,136,128>>, <<108,44,76,96>>, <<168,40,136,160>>,
    <<20,23,7,19>>, <<196,4,196,192>>, <<20,22,6,18>>, <<244,52,196,240>>,
    <<192,2,194,194>>, <<68,5,69,65>>, <<224,33,193,225>>, <<212,22,198,210>>,
    <<60,63,15,51>>, <<60,61,13,49>>, <<140,14,142,130>>, <<152,24,136,144>>,
    <<40,40,8,32>>, <<76,14,78,66>>, <<244,54,198,242>>, <<60,62,14,50>>,
    <<164,37,133,161>>, <<248,57,201,241>>, <<12,13,13,1>>, <<220,31,207,211>>,
    <<216,24,200,208>>, <<40,43,11,35>>, <<100,38,70,98>>, <<120,58,74,114>>,
    <<36,39,7,35>>, <<44,47,15,35>>, <<240,49,193,241>>, <<112,50,66,114>>,
    <<64,2,66,66>>, <<212,20,196,208>>, <<64,1,65,65>>, <<192,0,192,192>>,
    <<112,51,67,115>>, <<100,39,71,99>>, <<172,44,140,160>>, <<136,11,139,131>>,
    <<244,55,199,243>>, <<172,45,141,161>>, <<128,0,128,128>>, <<28,31,15,19>>,
    <<200,10,202,194>>, <<44,44,12,32>>, <<168,42,138,162>>, <<52,52,4,48>>,
    <<208,18,194,210>>, <<8,11,11,3>>, <<236,46,206,226>>, <<232,41,201,225>>,
    <<92,29,77,81>>, <<148,20,132,144>>, <<24,24,8,16>>, <<248,56,200,240>>,
    <<84,23,71,83>>, <<172,46,142,162>>, <<8,8,8,0>>, <<196,5,197,193>>,
    <<16,19,3,19>>, <<204,13,205,193>>, <<132,6,134,130>>, <<184,57,137,177>>,
    <<252,63,207,243>>, <<124,61,77,113>>, <<192,1,193,193>>, <<48,49,1,49>>,
    <<244,53,197,241>>, <<136,10,138,130>>, <<104,42,74,98>>, <<176,49,129,177>>,
    <<208,17,193,209>>, <<32,32,0,32>>, <<212,23,199,211>>, <<0,2,2,2>>,
    <<32,34,2,34>>, <<4,4,4,0>>, <<104,40,72,96>>, <<112,49,65,113>>,
    <<4,7,7,3>>, <<216,27,203,211>>, <<156,29,141,145>>, <<152,25,137,145>>,
    <<96,33,65,97>>, <<188,62,142,178>>, <<228,38,198,226>>, <<88,25,73,81>>,
    <<220,29,205,209>>, <<80,17,65,81>>, <<144,16,128,144>>, <<220,28,204,208>>,
    <<152,26,138,146>>, <<160,35,131,163>>, <<168,43,139,163>>, <<208,16,192,208>>,
    <<128,1,129,129>>, <<12,15,15,3>>, <<68,7,71,67>>, <<24,26,10,18>>,
    <<224,35,195,227>>, <<236,44,204,224>>, <<140,13,141,129>>, <<188,63,143,179>>,
    <<148,22,134,146>>, <<120,59,75,115>>, <<92,28,76,80>>, <<160,34,130,162>>,
    <<160,33,129,161>>, <<96,35,67,99>>, <<32,35,3,35>>, <<76,13,77,65>>,
    <<200,8,200,192>>, <<156,30,142,146>>, <<156,28,140,144>>, <<56,58,10,50>>,
    <<12,12,12,0>>, <<44,46,14,34>>, <<184,58,138,178>>, <<108,46,78,98>>,
    <<156,31,143,147>>, <<88,26,74,82>>, <<240,50,194,242>>, <<144,18,130,146>>,
    <<240,51,195,243>>, <<72,9,73,65>>, <<120,56,72,112>>, <<204,12,204,192>>,
    <<20,21,5,17>>, <<248,59,203,243>>, <<112,48,64,112>>, <<116,53,69,113>>,
    <<124,63,79,115>>, <<52,53,5,49>>, <<16,16,0,16>>, <<0,3,3,3>>,
    <<100,36,68,96>>, <<108,45,77,97>>, <<196,6,198,194>>, <<116,52,68,112>>,
    <<212,21,197,209>>, <<180,52,132,176>>, <<232,42,202,226>>, <<8,9,9,1>>,
    <<116,54,70,114>>, <<24,25,9,17>>, <<252,62,206,242>>, <<64,0,64,64>>,
    <<16,18,2,18>>, <<224,32,192,224>>, <<188,61,141,177>>, <<4,5,5,1>>,
    <<248,58,202,242>>, <<0,1,1,1>>, <<240,48,192,240>>, <<40,42,10,34>>,
    <<92,30,78,82>>, <<168,41,137,161>>, <<84,22,70,82>>, <<64,3,67,67>>,
    <<132,5,133,129>>, <<20,20,4,16>>, <<136,9,137,129>>, <<152,27,139,147>>,
    <<176,48,128,176>>, <<228,37,197,225>>, <<72,8,72,64>>, <<120,57,73,113>>,
    <<148,23,135,147>>, <<252,60,204,240>>, <<28,30,14,18>>, <<128,2,130,130>>,
    <<32,33,1,33>>, <<140,12,140,128>>, <<24,27,11,19>>, <<92,31,79,83>>,
    <<116,55,71,115>>, <<84,20,68,80>>, <<176,50,130,178>>, <<28,29,13,17>>,
    <<36,37,5,33>>, <<76,15,79,67>>, <<0,0,0,0>>, <<68,6,70,66>>,
    <<236,45,205,225>>, <<88,24,72,80>>, <<80,18,66,82>>, <<232,43,203,227>>,
    <<124,62,78,114>>, <<216,26,202,210>>, <<200,9,201,193>>, <<252,61,205,241>>,
    <<48,48,0,48>>, <<148,21,133,145>>, <<100,37,69,97>>, <<60,60,12,48>>,
    <<180,54,134,178>>, <<228,36,196,224>>, <<184,59,139,179>>, <<124,60,76,112>>,
    <<12,14,14,2>>, <<80,16,64,80>>, <<56,57,9,49>>, <<36,38,6,34>>,
    <<48,50,2,50>>, <<132,4,132,128>>, <<104,41,73,97>>, <<144,19,131,147>>,
    <<52,55,7,51>>, <<228,39,199,227>>, <<36,36,4,32>>, <<164,36,132,160>>,
    <<200,11,203,195>>, <<80,19,67,83>>, <<8,10,10,2>>, <<132,7,135,131>>,
    <<216,25,201,209>>, <<76,12,76,64>>, <<128,3,131,131>>, <<140,15,143,131>>,
    <<204,14,206,194>>, <<56,59,11,51>>, <<72,10,74,66>>, <<180,55,135,179>>
  >>

ss2 ==
  <<
    <<161,168,41,137>>, <<129,132,5,133>>, <<210,212,22,198>>, <<211,208,19,195>>,
    <<80,84,20,68>>, <<17,28,29,13>>, <<160,172,44,140>>, <<33,36,37,5>>,
    <<81,92,29,77>>, <<67,64,3,67>>, <<16,24,24,8>>, <<18,28,30,14>>,
    <<81,80,17,65>>, <<240,252,60,204>>, <<194,200,10,202>>, <<99,96,35,67>>,
    <<32,40,40,8>>, <<64,68,4,68>>, <<32,32,32,0>>, <<145,156,29,141>>,
    <<224,224,32,192>>, <<226,224,34,194>>, <<192,200,8,200>>, <<19,20,23,7>>,
    <<161,164,37,133>>, <<131,140,15,143>>, <<3,0,3,3>>, <<115,120,59,75>>,
    <<179,184,59,139>>, <<19,16,19,3>>, <<210,208,18,194>>, <<226,236,46,206>>,
    <<112,112,48,64>>, <<128,140,12,140>>, <<51,60,63,15>>, <<160,168,40,136>>,
    <<50,48,50,2>>, <<209,220,29,205>>, <<242,244,54,198>>, <<112,116,52,68>>,
    <<224,236,44,204>>, <<145,148,21,133>>, <<3,8,11,11>>, <<83,84,23,71>>,
    <<80,92,28,76>>, <<83,88,27,75>>, <<177,188,61,141>>, <<1,0,1,1>>,
    <<32,36,36,4>>, <<16,28,28,12>>, <<115,112,51,67>>, <<144,152,24,136>>,
    <<16,16,16,0>>, <<192,204,12,204>>, <<242,240,50,194>>, <<209,216,25,201>>,
    <<32,44,44,12>>, <<227,228,39,199>>, <<114,112,50,66>>, <<131,128,3,131>>,
    <<147,152,27,139>>, <<209,208,17,193>>, <<130,132,6,134>>, <<193,200,9,201>>,
    <<96,96,32,64>>, <<80,80,16,64>>, <<163,160,35,131>>, <<227,232,43,203>>,
    <<1,12,13,13>>, <<178,180,54,134>>, <<146,156,30,142>>, <<67,76,15,79>>,
    <<179,180,55,135>>, <<82,88,26,74>>, <<194,196,6,198>>, <<112,120,56,72>>,
    <<162,164,38,134>>, <<18,16,18,2>>, <<163,172,47,143>>, <<209,212,21,197>>,
    <<97,96,33,65>>, <<195,192,3,195>>, <<176,180,52,132>>, <<65,64,1,65>>,
    <<82,80,18,66>>, <<113,124,61,77>>, <<129,140,13,141>>, <<0,8,8,8>>,
    <<19,28,31,15>>, <<145,152,25,137>>, <<0,0,0,0>>, <<17,24,25,9>>,
    <<0,4,4,4>>, <<83,80,19,67>>, <<243,244,55,199>>, <<225,224,33,193>>,
    <<241,252,61,205>>, <<114,116,54,70>>, <<35,44,47,15>>, <<35,36,39,7>>,
    <<176,176,48,128>>, <<131,136,11,139>>, <<2,12,14,14>>, <<163,168,43,139>>,
    <<162,160,34,130>>, <<98,108,46,78>>, <<147,144,19,131>>, <<65,76,13,77>>,
    <<97,104,41,73>>, <<112,124,60,76>>, <<1,8,9,9>>, <<2,8,10,10>>,
    <<179,188,63,143>>, <<227,236,47,207>>, <<243,240,51,195>>, <<193,196,5,197>>,
    <<131,132,7,135>>, <<16,20,20,4>>, <<242,252,62,206>>, <<96,100,36,68>>,
    <<210,220,30,206>>, <<34,44,46,14>>, <<67,72,11,75>>, <<18,24,26,10>>,
    <<2,4,6,6>>, <<33,32,33,1>>, <<99,104,43,75>>, <<98,100,38,70>>,
    <<2,0,2,2>>, <<241,244,53,197>>, <<146,144,18,130>>, <<130,136,10,138>>,
    <<0,12,12,12>>, <<179,176,51,131>>, <<114,124,62,78>>, <<208,208,16,192>>,
    <<114,120,58,74>>, <<67,68,7,71>>, <<146,148,22,134>>, <<225,228,37,197>>,
    <<34,36,38,6>>, <<128,128,0,128>>, <<161,172,45,141>>, <<211,220,31,207>>,
    <<161,160,33,129>>, <<48,48,48,0>>, <<51,52,55,7>>, <<162,172,46,142>>,
    <<50,52,54,6>>, <<17,20,21,5>>, <<34,32,34,2>>, <<48,56,56,8>>,
    <<240,244,52,196>>, <<163,164,39,135>>, <<65,68,5,69>>, <<64,76,12,76>>,
    <<129,128,1,129>>, <<225,232,41,201>>, <<128,132,4,132>>, <<147,148,23,135>>,
    <<49,52,53,5>>, <<195,200,11,203>>, <<194,204,14,206>>, <<48,60,60,12>>,
    <<113,112,49,65>>, <<17,16,17,1>>, <<195,196,7,199>>, <<129,136,9,137>>,
    <<113,116,53,69>>, <<243,248,59,203>>, <<210,216,26,202>>, <<240,248,56,200>>,
    <<144,148,20,132>>, <<81,88,25,73>>, <<130,128,2,130>>, <<192,196,4,196>>,
    <<243,252,63,207>>, <<65,72,9,73>>, <<49,56,57,9>>, <<99,100,39,71>>,
    <<192,192,0,192>>, <<195,204,15,207>>, <<211,212,23,199>>, <<176,184,56,136>>,
    <<3,12,15,15>>, <<130,140,14,142>>, <<66,64,2,66>>, <<35,32,35,3>>,
    <<145,144,17,129>>, <<96,108,44,76>>, <<211,216,27,203>>, <<160,164,36,132>>,
    <<48,52,52,4>>, <<241,240,49,193>>, <<64,72,8,72>>, <<194,192,2,194>>,
    <<99,108,47,79>>, <<49,60,61,13>>, <<33,44,45,13>>, <<64,64,0,64>>,
    <<178,188,62,142>>, <<50,60,62,14>>, <<176,188,60,140>>, <<193,192,1,193>>,
    <<162,168,42,138>>, <<178,184,58,138>>, <<66,76,14,78>>, <<81,84,21,69>>,
    <<51,56,59,11>>, <<208,220,28,204>>, <<96,104,40,72>>, <<115,124,63,79>>,
    <<144,156,28,140>>, <<208,216,24,200>>, <<66,72,10,74>>, <<82,84,22,70>>,
    <<115,116,55,71>>, <<160,160,32,128>>, <<225,236,45,205>>, <<66,68,6,70>>,
    <<177,180,53,133>>, <<35,40,43,11>>, <<97,100,37,69>>, <<242,248,58,202>>,
    <<227,224,35,195>>, <<177,184,57,137>>, <<177,176,49,129>>, <<147,156,31,143>>,
    <<82,92,30,78>>, <<241,248,57,201>>, <<226,228,38,198>>, <<178,176,50,130>>,
    <<49,48,49,1>>, <<226,232,42,202>>, <<97,108,45,77>>, <<83,92,31,79>>,
    <<224,228,36,196>>, <<240,240,48,192>>, <<193,204,13,205>>, <<128,136,8,136>>,
    <<18,20,22,6>>, <<50,56,58,10>>, <<80,88,24,72>>, <<208,212,20,196>>,
    <<98,96,34,66>>, <<33,40,41,9>>, <<3,4,7,7>>, <<51,48,51,3>>,
    <<224,232,40,200>>, <<19,24,27,11>>, <<1,4,5,5>>, <<113,120,57,73>>,
    <<144,144,16,128>>, <<98,104,42,74>>, <<34,40,42,10>>, <<146,152,26,138>>
  >>

ss3 ==
  <<
    <<8,48,56,56>>, <<200,224,232,40>>, <<13,33,44,45>>, <<134,162,164,38>>,
    <<207,195,204,15>>, <<206,210,220,30>>, <<131,179,176,51>>, <<136,176,184,56>>,
    <<143,163,172,47>>, <<64,96,96,32>>, <<69,81,84,21>>, <<199,195,196,7>>,
    <<68,64,68,4>>, <<79,99,108,47>>, <<75,99,104,43>>, <<75,83,88,27>>,
    <<195,195,192,3>>, <<66,98,96,34>>, <<3,51,48,51>>, <<133,177,180,53>>,
    <<9,33,40,41>>, <<128,160,160,32>>, <<194,226,224,34>>, <<135,163,164,39>>,
    <<195,211,208,19>>, <<129,145,144,17>>, <<1,17,16,17>>, <<6,2,4,6>>,
    <<12,16,28,28>>, <<140,176,188,60>>, <<6,50,52,54>>, <<75,67,72,11>>,
    <<207,227,236,47>>, <<136,128,136,8>>, <<76,96,108,44>>, <<136,160,168,40>>,
    <<7,19,20,23>>, <<196,192,196,4>>, <<6,18,20,22>>, <<196,240,244,52>>,
    <<194,194,192,2>>, <<69,65,68,5>>, <<193,225,224,33>>, <<198,210,212,22>>,
    <<15,51,60,63>>, <<13,49,60,61>>, <<142,130,140,14>>, <<136,144,152,24>>,
    <<8,32,40,40>>, <<78,66,76,14>>, <<198,242,244,54>>, <<14,50,60,62>>,
    <<133,161,164,37>>, <<201,241,248,57>>, <<13,1,12,13>>, <<207,211,220,31>>,
    <<200,208,216,24>>, <<11,35,40,43>>, <<70,98,100,38>>, <<74,114,120,58>>,
    <<7,35,36,39>>, <<15,35,44,47>>, <<193,241,240,49>>, <<66,114,112,50>>,
    <<66,66,64,2>>, <<196,208,212,20>>, <<65,65,64,1>>, <<192,192,192,0>>,
    <<67,115,112,51>>, <<71,99,100,39>>, <<140,160,172,44>>, <<139,131,136,11>>,
    <<199,243,244,55>>, <<141,161,172,45>>, <<128,128,128,0>>, <<15,19,28,31>>,
    <<202,194,200,10>>, <<12,32,44,44>>, <<138,162,168,42>>, <<4,48,52,52>>,
    <<194,210,208,18>>, <<11,3,8,11>>, <<206,226,236,46>>, <<201,225,232,41>>,
    <<77,81,92,29>>, <<132,144,148,20>>, <<8,16,24,24>>, <<200,240,248,56>>,
    <<71,83,84,23>>, <<142,162,172,46>>, <<8,0,8,8>>, <<197,193,196,5>>,
    <<3,19,16,19>>, <<205,193,204,13>>, <<134,130,132,6>>, <<137,177,184,57>>,
    <<207,243,252,63>>, <<77,113,124,61>>, <<193,193,192,1>>, <<1,49,48,49>>,
    <<197,241,244,53>>, <<138,130,136,10>>, <<74,98,104,42>>, <<129,177,176,49>>,
    <<193,209,208,17>>, <<0,32,32,32>>, <<199,211,212,23>>, <<2,2,0,2>>,
    <<2,34,32,34>>, <<4,0,4,4>>, <<72,96,104,40>>, <<65,113,112,49>>,
    <<7,3,4,7>>, <<203,211,216,27>>, <<141,145,156,29>>, <<137,145,152,25>>,
    <<65,97,96,33>>, <<142,178,188,62>>, <<198,226,228,38>>, <<73,81,88,25>>,
    <<205,209,220,29>>, <<65,81,80,17>>, <<128,144,144,16>>, <<204,208,220,28>>,
    <<138,146,152,26>>, <<131,163,160,35>>, <<139,163,168,43>>, <<192,208,208,16>>,
    <<129,129,128,1>>, <<15,3,12,15>>, <<71,67,68,7>>, <<10,18,24,26>>,
    <<195,227,224,35>>, <<204,224,236,44>>, <<141,129,140,13>>, <<143,179,188,63>>,
    <<134,146,148,22>>, <<75,115,120,59>>, <<76,80,92,28>>, <<130,162,160,34>>,
    <<129,161,160,33>>, <<67,99,96,35>>, <<3,35,32,35>>, <<77,65,76,13>>,
    <<200,192,200,8>>, <<142,146,156,30>>, <<140,144,156,28>>, <<10,50,56,58>>,
    <<12,0,12,12>>, <<14,34,44,46>>, <<138,178,184,58>>, <<78,98,108,46>>,
    <<143,147,156,31>>, <<74,82,88,26>>, <<194,242,240,50>>, <<130,146,144,18>>,
    <<195,243,240,51>>, <<73,65,72,9>>, <<72,112,120,56>>, <<204,192,204,12>>,
    <<5,17,20,21>>, <<203,243,248,59>>, <<64,112,112,48>>, <<69,113,116,53>>,
    <<79,115,124,63>>, <<5,49,52,53>>, <<0,16,16,16>>, <<3,3,0,3>>,
    <<68,96,100,36>>, <<77,97,108,45>>, <<198,194,196,6>>, <<68,112,116,52>>,
    <<197,209,212,21>>, <<132,176,180,52>>, <<202,226,232,42>>, <<9,1,8,9>>,
    <<70,114,116,54>>, <<9,17,24,25>>, <<206,242,252,62>>, <<64,64,64,0>>,
    <<2,18,16,18>>, <<192,224,224,32>>, <<141,177,188,61>>, <<5,1,4,5>>,
    <<202,242,248,58>>, <<1,1,0,1>>, <<192,240,240,48>>, <<10,34,40,42>>,
    <<78,82,92,30>>, <<137,161,168,41>>, <<70,82,84,22>>, <<67,67,64,3>>,
    <<133,129,132,5>>, <<4,16,20,20>>, <<137,129,136,9>>, <<139,147,152,27>>,
    <<128,176,176,48>>, <<197,225,228,37>>, <<72,64,72,8>>, <<73,113,120,57>>,
    <<135,147,148,23>>, <<204,240,252,60>>, <<14,18,28,30>>, <<130,130,128,2>>,
    <<1,33,32,33>>, <<140,128,140,12>>, <<11,19,24,27>>, <<79,83,92,31>>,
    <<71,115,116,55>>, <<68,80,84,20>>, <<130,178,176,50>>, <<13,17,28,29>>,
    <<5,33,36,37>>, <<79,67,76,15>>, <<0,0,0,0>>, <<70,66,68,6>>,
    <<205,225,236,45>>, <<72,80,88,24>>, <<66,82,80,18>>, <<203,227,232,43>>,
    <<78,114,124,62>>, <<202,210,216,26>>, <<201,193,200,9>>, <<205,241,252,61>>,
    <<0,48,48,48>>, <<133,145,148,21>>, <<69,97,100,37>>, <<12,48,60,60>>,
    <<134,178,180,54>>, <<196,224,228,36>>, <<139,179,184,59>>, <<76,112,124,60>>,
    <<14,2,12,14>>, <<64,80,80,16>>, <<9,49,56,57>>, <<6,34,36,38>>,
    <<2,50,48,50>>, <<132,128,132,4>>, <<73,97,104,41>>, <<131,147,144,19>>,
    <<7,51,52,55>>, <<199,227,228,39>>, <<4,32,36,36>>, <<132,160,164,36>>,
    <<203,195,200,11>>, <<67,83,80,19>>, <<10,2,8,10>>, <<135,131,132,7>>,
    <<201,209,216,25>>, <<76,64,76,12>>, <<131,131,128,3>>, <<143,131,140,15>>,
    <<206,194,204,14>>, <<11,51,56,59>>, <<74,66,72,10>>, <<135,179,180,55>>
  >>
---------------------------------------------------------------------------
(* the cipher's functions *)

\* rotate 64 bits left by one byte
rotlbyte32(x0, x1) ==
  LET b0 == Shr24[And32[x0, MaskHi]]
      b1 == Shr24[And32[x1, MaskHi]]
  IN  <<Or32[Shl8[x0], b1], Or32[Shl8[x1], b0]>>

\* rotrbyte32 with the carried bytes put back into their own words
rotrbyte32_own(x0, x1) ==
  LET b0 == Shl24[And32[x0, MaskLo]]
      b1 == Shl24[And32[x1, MaskLo]]
  IN  <<Or32[Shr8[x0], b0], Or32[Shr8[x1], b1]>>

\* rotate 64 bits right by one byte
rotrbyte32(x0, x1) ==
  LET b0 == Shl24[And32[x0, MaskLo]]
      b1 == Shl24[And32[x1, MaskLo]]
  IN  <<Or32[Shr8[x0], b1], Or32[Shr8[x1], b0]>>

\* the G function: x3 is the most significant byte of x, x0 the least
g[x \in uint32] ==
  LET x3 == x[1]
      x2 == x[2]
      x1 == x[3]
      x0 == x[4]
  IN  Xor32[Xor32[Xor32[ss0[x0 + 1], ss1[x1 + 1]], ss2[x2 + 1]], ss3[x3 + 1]]

\* f with g1 in place of g2 in the sum that makes r0p
f_g1(k0, k1, r0, r1) ==
  LET r0p == Add32[g[Add32[g[Add32[g[Xor32[Xor32[r0, k0], Xor32[r1, k1]]], Xor32[r0, k0]]],
                           g[Xor32[Xor32[r0, k0], Xor32[r1, k1]]]]],
                   g[Xor32[Xor32[r0, k0], Xor32[r1, k1]]]]
      r1p == g[Add32[g[Add32[g[Xor32[Xor32[r0, k0], Xor32[r1, k1]]], Xor32[r0, k0]]],
                     g[Xor32[Xor32[r0, k0], Xor32[r1, k1]]]]]
  IN  <<r0p, r1p>>

\* the round function
f(k0, k1, r0, r1) ==
  LET r0p == Add32[g[Add32[g[Add32[g[Xor32[Xor32[r0, k0], Xor32[r1, k1]]], Xor32[r0, k0]]],
                           g[Xor32[Xor32[r0, k0], Xor32[r1, k1]]]]],
                   g[Add32[g[Xor32[Xor32[r0, k0], Xor32[r1, k1]]], Xor32[r0, k0]]]]
      r1p == g[Add32[g[Add32[g[Xor32[Xor32[r0, k0], Xor32[r1, k1]]], Xor32[r0, k0]]],
                     g[Xor32[Xor32[r0, k0], Xor32[r1, k1]]]]]
  IN  <<r0p, r1p>>

\* binary.Read(buf, binary.BigEndian, &x): <<x, the bytes left in buf>>.
\* With fewer than 4 bytes left the read fails (the error is dropped), the
\* bytes left are consumed and x keeps its value.
ReadU32(buf, x) ==
  IF Len(buf) >= 4
    THEN <<SubSeq(buf, 1, 4), SubSeq(buf, 5, Len(buf))>>
    ELSE <<x, <<>>>>

\* the four reads that open Encrypt, Decrypt and subkeys: <<w0, w1, w2, w3>>
Unpack(b) ==
  LET a0 == ReadU32(b, Zero32)
      a1 == ReadU32(a0[2], Zero32)
      a2 == ReadU32(a1[2], Zero32)
      a3 == ReadU32(a2[2], Zero32)
  IN  <<a0[1], a1[1], a2[1], a3[1]>>

\* how many bytes of b the four reads decode into words
Decoded(b) == IF Len(b) >= 16 THEN 16 ELSE 4 * (Len(b) \div 4)

\* the four binary.Write calls into a fresh buffer: buf.Bytes()
Pack(w) == w[1] \o w[2] \o w[3] \o w[4]

\* copy(d, b): d after the copy; the count copied is Copied(d, b)
Copied(d, b) == IF Len(d) < Len(b) THEN Len(d) ELSE Len(b)
Copy(d, b) ==
  [j \in 1..Len(d) |-> IF j <= Copied(d, b) THEN b[j] ELSE d[j]]

ZeroKeys == [j \in 0..16 |-> Zero32]
\* new(SEEDCipher)
NewCipher == [k0 |-> ZeroKeys, k1 |-> ZeroKeys]

\* one iteration of the loop of subkeys on s = [c, key0, key1, key2, key3]
SubkeyRound(s, i) ==
  LET c1 == [k0 |-> [s.c.k0 EXCEPT ![i] = g[Sub32[Add32[s.key0, s.key2], kc[i + 1]]]],
             k1 |-> [s.c.k1 EXCEPT ![i] = g[Add32[Sub32[s.key1, s.key3], kc[i + 1]]]]]
  IN  IF i % 2 = 1
        THEN LET r == rotrbyte32(s.key0, s.key1)
             IN  [s EXCEPT !.c = c1, !.key0 = r[1], !.key1 = r[2]]
        ELSE LET r == rotlbyte32(s.key2, s.key3)
             IN  [s EXCEPT !.c = c1, !.key2 = r[1], !.key3 = r[2]]

\* the locals of subkeys after its four reads
SubkeyStart(cc, k) ==
  LET w == Unpack(k)
  IN  [c |-> cc, key0 |-> w[1], key1 |-> w[2], key2 |-> w[3], key3 |-> w[4]]

\* iterations lo..hi of the loop of subkeys, in order, on the locals s that
\* iteration lo - 1 left. The range is run as its lower half and then its upper
\* half, and s is made a value first (s.key0 is a word), so that the evaluation
\* nests to the logarithm of the number of iterations, not to their number.
RECURSIVE SubkeyLoop(_, _, _)
SubkeyLoop(s, lo, hi) ==
  IF Len(s.key0) # 4 \/ lo > hi THEN s
  ELSE IF lo = hi THEN SubkeyRound(s, lo)
  ELSE SubkeyLoop(SubkeyLoop(s, lo, (lo + hi) \div 2), ((lo + hi) \div 2) + 1, hi)

\* c.subkeys(key): the cipher afterwards
subkeys(cc, k) == SubkeyLoop(SubkeyStart(cc, k), 1, 16).c

\* EncRound that overwrites r0, r1 with f0, f1 instead of l0^f0, l1^f1
EncRound_noxor(cc, i, w) ==
  LET t0 == w[3]
      t1 == w[4]
      ff == f(cc.k0[i], cc.k1[i], w[3], w[4])
  IN  <<t0, t1, ff[1], ff[2]>>

\* one iteration of the loop of Encrypt on w = <<l0, l1, r0, r1>>
EncRound(cc, i, w) ==
  LET t0 == w[3]
      t1 == w[4]
      ff == f(cc.k0[i], cc.k1[i], w[3], w[4])
  IN  <<t0, t1, Xor32[w[1], ff[1]], Xor32[w[2], ff[2]]>>

\* a last round that swaps the halves as rounds 1 to 15 do
HalfRound_swap(cc, w) ==
  LET ff == f(cc.k0[16], cc.k1[16], w[3], w[4])
  IN  <<w[3], w[4], Xor32[w[1], ff[1]], Xor32[w[2], ff[2]]>>

\* the half round with round key 16, shared by Encrypt and Decrypt
HalfRound(cc, w) ==
  LET ff == f(cc.k0[16], cc.k1[16], w[3], w[4])
  IN  <<Xor32[w[1], ff[1]], Xor32[w[2], ff[2]], w[3], w[4]>>

\* DecRound that calls f on r0, r1 as Encrypt does, not on l0, l1
DecRound_onR(cc, i, w) ==
  LET t0 == w[1]
      t1 == w[2]
      ff == f(cc.k0[i], cc.k1[i], w[3], w[4])
  IN  <<Xor32[w[3], ff[1]], Xor32[w[4], ff[2]], t0, t1>>

\* one iteration of the loop of Decrypt on w = <<l0, l1, r0, r1>>
DecRound(cc, i, w) ==
  LET t0 == w[1]
      t1 == w[2]
      ff == f(cc.k0[i], cc.k1[i], t0, t1)
  IN  <<Xor32[w[3], ff[1]], Xor32[w[4], ff[2]], t0, t1>>

\* iterations lo, lo + 1, .. hi of the loop of Encrypt on the words w that
\* iteration lo - 1 left, split and made a value first as in SubkeyLoop
RECURSIVE EncLoop(_, _, _, _)
EncLoop(cc, lo, hi, w) ==
  IF Len(w) # 4 \/ lo > hi THEN w
  ELSE IF lo = hi THEN EncRound(cc, lo, w)
  ELSE EncLoop(cc, ((lo + hi) \div 2) + 1, hi, EncLoop(cc, lo, (lo + hi) \div 2, w))

\* iterations hi, hi - 1, .. lo of the loop of Decrypt on the words w that
\* iteration hi + 1 left
RECURSIVE DecLoop(_, _, _, _)
DecLoop(cc, hi, lo, w) ==
  IF Len(w) # 4 \/ lo > hi THEN w
  ELSE IF lo = hi THEN DecRound(cc, hi, w)
  ELSE DecLoop(cc, (lo + hi) \div 2, lo, DecLoop(cc, hi, ((lo + hi) \div 2) + 1, w))

\* buf.Bytes() at the end of c.Encrypt(d, s)
EncryptBytes(cc, s) == Pack(HalfRound(cc, EncLoop(cc, 1, 15, Unpack(s))))

\* buf.Bytes() at the end of c.Decrypt(d, s)
DecryptBytes(cc, s) == Pack(DecLoop(cc, 15, 1, HalfRound(cc, Unpack(s))))

\* c.Encrypt(d, s) and c.Decrypt(d, s): the dst buffer afterwards
EncryptBuf(cc, d, s) == Copy(d, EncryptBytes(cc, s))
DecryptBuf(cc, d, s) == Copy(d, DecryptBytes(cc, s))

\* a Reset loop that clears k0 and forgets k1
ResetLoop_k0only(cc) ==
  [k0 |-> [i \in DOMAIN cc.k0 |-> Zero32], k1 |-> cc.k1]

\* a Reset loop that stops one index early
ResetLoop_short(cc) ==
  [k0 |-> [i \in DOMAIN cc.k0 |-> IF i < 16 THEN Zero32 ELSE cc.k0[i]],
   k1 |-> [i \in DOMAIN cc.k0 |-> IF i < 16 THEN Zero32 ELSE cc.k1[i]]]

\* the loop of Reset: for every index i of c.k0, c.k0[i] = 0 and c.k1[i] = 0
ResetLoop(cc) ==
  [k0 |-> [i \in DOMAIN cc.k0 |-> Zero32],
   k1 |-> [i \in DOMAIN cc.k0 |-> Zero32]]

---------------------------------------------------------------------------
(* the arguments the callers pass *)

MaxChain == 1   \* calls in a row that take the previous dst as their src
MaxResets == 2  \* Reset calls on one instance
NumProcs == 2   \* goroutines sharing one instance
MaxCalls == 2   \* calls of f on the same arguments

\* RFC 4269 Appendix B, vectors B.1 and B.2
Key1 == [j \in 1..16 |-> 0]
Pt1 == [j \in 1..16 |-> j - 1]
Ct1 == <<94, 186, 198, 224, 5, 78, 22, 104, 25, 175, 241, 204, 109, 52, 108, 219>>
Key2 == [j \in 1..16 |-> j - 1]
Pt2 == [j \in 1..16 |-> 0]
Ct2 == <<193, 31, 34, 242, 1, 64, 80, 80, 132, 72, 53, 151, 228, 55, 15, 67>>
\* the key of vector B.3
Key3 == <<71, 6, 72, 8, 81, 230, 27, 232, 93, 116, 191, 179, 253, 149, 97, 133>>

\* a caller's buffer of n bytes, and its 16-byte dst buffer
Buf(n) == [j \in 1..n |-> 170]
Buf16 == Buf(16)

Keys == {Key1, Key2, Key3}
BufKeys == {Key1, Key2}
BadKeys == {<<>>, SubSeq(Key2, 1, 15), Key2 \o <<16>>, Key2 \o Key2}
Blocks == {Pt1, Pt2, Ct1, Ct2}

\* the key and block the goroutines share, the words f is called on
ConcKey == Key2
ConcBlocks == {Pt1}
FWords == {Zero32, <<255, 255, 255, 255>>, <<1, 35, 69, 103>>, <<137, 171, 205, 239>>}

\* buffers of other lengths than 16
BufSrcs == {SubSeq(Pt1 \o <<16, 17>>, 1, n) : n \in {0, 3, 8, 15, 16, 18}}
BufDsts == {Buf(n) : n \in {0, 8, 15, 16, 18}}

NoPrev == [op |-> "none", src |-> <<>>, resets |-> 0]
Procs == 1..NumProcs
IdleLoc == [op |-> "none", src |-> <<>>, dst |-> <<>>, w |-> <<>>, i |-> 0]
IdleConc == /\ pc = [p \in Procs |-> "idle"]
            /\ loc = [p \in Procs |-> IdleLoc]
IdleF == fin = <<>> /\ fout = <<>>
NoCall == /\ src = <<>> /\ dst = <<>> /\ dst0 = <<>>
          /\ outcome = "none" /\ nread = 0 /\ nwritten = 0
          /\ resets = 0 /\ at = 0 /\ prev = NoPrev /\ chain = 0

---------------------------------------------------------------------------
(* the methods, one call each *)

\* NewSEED that rejects only the keys shorter than 16 bytes
NewSEED_atleast(k) ==
  /\ ret = "none"
  /\ key' = k
  /\ op' = "NewSEED"
  /\ IF Len(k) < 16
       THEN c' = NewCipher /\ ret' = "nil" /\ err' = <<Len(k)>>
       ELSE c' = subkeys(NewCipher, k) /\ ret' = "c" /\ err' = <<>>
  /\ UNCHANGED <<src, dst, dst0, outcome, nread, nwritten, resets, at, prev, chain>>
  /\ UNCHANGED <<concVars, fVars>>

\* NewSEED(k)
NewSEED(k) ==
  /\ ret = "none"
  /\ key' = k
  /\ op' = "NewSEED"
  /\ IF Len(k) # 16
       THEN c' = NewCipher /\ ret' = "nil" /\ err' = <<Len(k)>>
       ELSE c' = subkeys(NewCipher, k) /\ ret' = "c" /\ err' = <<>>
  /\ UNCHANGED <<src, dst, dst0, outcome, nread, nwritten, resets, at, prev, chain>>
  /\ UNCHANGED <<concVars, fVars>>

\* what a call records of the call that filled its src (fb) or not
Handed(fb) == IF fb THEN [op |-> op, src |-> src, resets |-> at] ELSE NoPrev

\* c.Encrypt(d, s); fb: s is the dst buffer of the call before
Encrypt(s, d, fb) ==
  /\ ret = "c"
  /\ LET out == EncryptBytes(c, s)
     IN  /\ dst' = Copy(d, out)
         /\ nwritten' = Copied(d, out)
  /\ nread' = Decoded(s)
  /\ outcome' = "ok"
  /\ op' = "Encrypt" /\ src' = s /\ dst0' = d /\ at' = resets
  /\ prev' = Handed(fb)
  /\ chain' = IF fb THEN chain + 1 ELSE 0
  /\ UNCHANGED <<c, ret, err, key, resets, concVars, fVars>>

\* c.Decrypt(d, s); fb: s is the dst buffer of the call before
Decrypt(s, d, fb) ==
  /\ ret = "c"
  /\ LET out == DecryptBytes(c, s)
     IN  /\ dst' = Copy(d, out)
         /\ nwritten' = Copied(d, out)
  /\ nread' = Decoded(s)
  /\ outcome' = "ok"
  /\ op' = "Decrypt" /\ src' = s /\ dst0' = d /\ at' = resets
  /\ prev' = Handed(fb)
  /\ chain' = IF fb THEN chain + 1 ELSE 0
  /\ UNCHANGED <<c, ret, err, key, resets, concVars, fVars>>

\* c.Reset()
Reset ==
  /\ ret = "c"
  /\ resets < MaxResets
  /\ c' = ResetLoop(c)
  /\ resets' = resets + 1
  /\ UNCHANGED <<ret, err, key, op, src, dst, dst0, outcome, nread, nwritten,
                 at, prev, chain, concVars, fVars>>

\* the previous call left a dst buffer that this call may take as its src
CanHandOn == op \in {"Encrypt", "Decrypt"} /\ chain < MaxChain

Init ==
  /\ c = NewCipher /\ ret = "none" /\ err = <<>> /\ key = <<>> /\ op = "none"
  /\ NoCall /\ IdleConc /\ IdleF

Next ==
  \/ \E k \in Keys \cup BadKeys : NewSEED(k)
  \/ \E s \in Blocks : Encrypt(s, Buf16, FALSE)
  \/ \E s \in Blocks : Decrypt(s, Buf16, FALSE)
  \/ CanHandOn /\ Encrypt(dst, Buf16, TRUE)
  \/ CanHandOn /\ Decrypt(dst, Buf16, TRUE)
  \/ Reset

Spec == Init /\ [][Next]_vars

---------------------------------------------------------------------------
(* Encrypt and Decrypt on buffers of any length *)

\* the instance NewSEED(k) returns for a 16-byte k
Constructed(k) ==
  /\ c = subkeys(NewCipher, k) /\ ret = "c" /\ err = <<>> /\ key = k
  /\ op = "NewSEED"

InitBuf ==
  /\ \E k \in BufKeys : Constructed(k)
  /\ NoCall /\ IdleConc /\ IdleF

NextBuf ==
  \/ \E s \in BufSrcs, d \in BufDsts : Encrypt(s, d, FALSE)
  \/ \E s \in BufSrcs, d \in BufDsts : Decrypt(s, d, FALSE)

SpecBuf == InitBuf /\ [][NextBuf]_vars

---------------------------------------------------------------------------
(* goroutines calling Encrypt and Decrypt on one instance, a loop         *)
(* iteration at a time; every read of c.k0[i], c.k1[i] is in its own step *)

\* goroutine p enters c.Encrypt(Buf16, s) or c.Decrypt(Buf16, s): the four reads
Begin(p, o, s) ==
  /\ pc[p] = "idle"
  /\ loc' = [loc EXCEPT ![p] = [op |-> o, src |-> s, dst |-> Buf16,
                                w |-> Unpack(s),
                                i |-> IF o = "Encrypt" THEN 1 ELSE 16]]
  /\ pc' = [pc EXCEPT ![p] = IF o = "Encrypt" THEN "loop" ELSE "half"]
  /\ UNCHANGED <<c, apiVars, fVars>>

\* Round that clears each round key of c once it has used it
Round_wipe(p) ==
  /\ pc[p] = "loop"
  /\ IF loc[p].op = "Encrypt"
       THEN /\ loc' = [loc EXCEPT ![p].w = EncRound(c, loc[p].i, loc[p].w),
                                  ![p].i = loc[p].i + 1]
            /\ pc' = [pc EXCEPT ![p] = IF loc[p].i + 1 <= 15 THEN "loop" ELSE "half"]
       ELSE /\ loc' = [loc EXCEPT ![p].w = DecRound(c, loc[p].i, loc[p].w),
                                  ![p].i = loc[p].i - 1]
            /\ pc' = [pc EXCEPT ![p] = IF loc[p].i - 1 >= 1 THEN "loop" ELSE "write"]
  /\ c' = [k0 |-> [c.k0 EXCEPT ![loc[p].i] = Zero32],
           k1 |-> [c.k1 EXCEPT ![loc[p].i] = Zero32]]
  /\ UNCHANGED <<apiVars, fVars>>

\* one iteration of the loop of Encrypt or of Decrypt
Round(p) ==
  /\ pc[p] = "loop"
  /\ IF loc[p].op = "Encrypt"
       THEN /\ loc' = [loc EXCEPT ![p].w = EncRound(c, loc[p].i, loc[p].w),
                                  ![p].i = loc[p].i + 1]
            /\ pc' = [pc EXCEPT ![p] = IF loc[p].i + 1 <= 15 THEN "loop" ELSE "half"]
       ELSE /\ loc' = [loc EXCEPT ![p].w = DecRound(c, loc[p].i, loc[p].w),
                                  ![p].i = loc[p].i - 1]
            /\ pc' = [pc EXCEPT ![p] = IF loc[p].i - 1 >= 1 THEN "loop" ELSE "write"]
  /\ UNCHANGED <<c, apiVars, fVars>>

\* the half round with c.k0[16], c.k1[16]
Half(p) ==
  /\ pc[p] = "half"
  /\ loc' = [loc EXCEPT ![p].w = HalfRound(c, loc[p].w),
                        ![p].i = IF loc[p].op = "Encrypt" THEN loc[p].i ELSE 15]
  /\ pc' = [pc EXCEPT ![p] = IF loc[p].op = "Encrypt" THEN "write" ELSE "loop"]
  /\ UNCHANGED <<c, apiVars, fVars>>

\* the four writes and copy(dst, buf.Bytes())
Write(p) ==
  /\ pc[p] = "write"
  /\ loc' = [loc EXCEPT ![p].dst = Copy(loc[p].dst, Pack(loc[p].w))]
  /\ pc' = [pc EXCEPT ![p] = "done"]
  /\ UNCHANGED <<c, apiVars, fVars>>

InitConc ==
  /\ Constructed(ConcKey)
  /\ NoCall /\ IdleConc /\ IdleF

NextConc ==
  \/ \E p \in Procs, o \in {"Encrypt", "Decrypt"}, s \in ConcBlocks : Begin(p, o, s)
  \/ \E p \in Procs : Round(p)
  \/ \E p \in Procs : Half(p)
  \/ \E p \in Procs : Write(p)

SpecConc == InitConc /\ [][NextConc]_vars

---------------------------------------------------------------------------
(* the round function on its own *)

\* f(k0, k1, r0, r1) called on fin
CallF ==
  /\ Len(fout) < MaxCalls
  /\ fout' = Append(fout, f(fin[1], fin[2], fin[3], fin[4]))
  /\ UNCHANGED <<c, apiVars, concVars, fin>>

InitF ==
  /\ fin \in FWords \X FWords \X FWords \X FWords
  /\ fout = <<>>
  /\ c = NewCipher /\ ret = "none" /\ err = <<>> /\ key = <<>> /\ op = "none"
  /\ NoCall /\ IdleConc

NextF == CallF

SpecF == InitF /\ [][NextF]_vars

---------------------------------------------------------------------------
(* the properties *)

\* C1: on one instance, Decrypt applied to the output of Encrypt(P), with no
\* Reset between the two calls, returns exactly P.
C1_RoundTrip ==
  (op = "Decrypt" /\ prev.op = "Encrypt" /\ prev.resets = at) => dst = prev.src

C1_Witness ==
  /\ op = "Decrypt" /\ prev.op = "Encrypt" /\ prev.resets = 0 /\ at = 0
  /\ key = Key2 /\ prev.src = Pt1 /\ dst = Pt1

\* C2: Encrypt reproduces RFC 4269 vectors B.1 and B.2 byte for byte, and
\* Decrypt maps each ciphertext back to its plaintext.
C2_KnownAnswers ==
  at = 0 =>
    /\ (key = Key1 /\ op = "Encrypt" /\ src = Pt1) => dst = Ct1
    /\ (key = Key1 /\ op = "Decrypt" /\ src = Ct1) => dst = Pt1
    /\ (key = Key2 /\ op = "Encrypt" /\ src = Pt2) => dst = Ct2
    /\ (key = Key2 /\ op = "Decrypt" /\ src = Ct2) => dst = Pt2

C2_Witness ==
  at = 0 /\ resets = 0 /\ key = Key2 /\ op = "Encrypt" /\ src = Pt2 /\ dst = Ct2

\* C3: NewSEED returns an instance and no error exactly for a 16-byte key; for
\* any other length it returns nil and the key-size error holding that length,
\* and the round keys of the cipher it allocated are untouched.
C3_KeySize ==
  ret # "none" =>
    /\ (ret = "c") <=> (Len(key) = 16)
    /\ Len(key) = 16 => err = <<>>
    /\ Len(key) # 16 => (ret = "nil" /\ err = <<Len(key)>> /\ c = NewCipher)

C3_Witness == ret = "nil" /\ Len(key) = 32 /\ err = <<32>>

\* C5: after Reset every entry 0..16 of k0 and of k1 is zero, also after a
\* second Reset.
C5_ResetZeroes ==
  resets > 0 => \A i \in 0..16 : c.k0[i] = Zero32 /\ c.k1[i] = Zero32

C5_Witness == resets = 2 /\ key = Key2 /\ c = NewCipher

\* C6: however the Encrypt and Decrypt calls of the goroutines interleave, the
\* round keys stay as construction left them and every finished call holds the
\* output the same call gives alone on the fresh instance.
ConcC == subkeys(NewCipher, ConcKey)
Alone ==
  [o \in {"Encrypt", "Decrypt"} |->
    [s \in ConcBlocks |-> IF o = "Encrypt" THEN EncryptBuf(ConcC, Buf16, s)
                                           ELSE DecryptBuf(ConcC, Buf16, s)]]
C6_ReadOnlyKeys ==
  /\ c = ConcC
  /\ \A p \in Procs : pc[p] = "done" => loc[p].dst = Alone[loc[p].op][loc[p].src]

C6_Witness ==
  /\ pc[1] = "done" /\ loc[1].op = "Encrypt"
  /\ pc[2] = "loop" /\ loc[2].op = "Decrypt" /\ loc[2].i = 8

\* C7: Encrypt is a bijection on blocks: Encrypt applied to the output of
\* Decrypt(C) returns C, and no other block encrypts to the ciphertext of src.
C7_Bijection ==
  /\ (op = "Encrypt" /\ prev.op = "Decrypt" /\ prev.resets = at) => dst = prev.src
  /\ (op = "Encrypt" /\ at = resets) =>
       \A q \in Blocks \ {src} : EncryptBuf(c, Buf16, q) # dst

C7_Witness ==
  /\ op = "Encrypt" /\ prev.op = "Decrypt" /\ prev.resets = 0 /\ at = 0
  /\ key = Key1 /\ prev.src = Ct1 /\ dst = Ct1

\* C8: the round keys of a constructed instance are, for i = 1..16,
\* k0[i] = G(key0 + key2 - KC[i]) and k1[i] = G(key1 - key3 + KC[i]) on the
\* words left by rotating key0||key1 right one byte after each odd round and
\* key2||key3 left one byte after each even round; index 0 stays zero.
RotR64(s, n) == [j \in 1..8 |-> s[((j - 1 - n + 16) % 8) + 1]]
RotL64(s, n) == [j \in 1..8 |-> s[((j - 1 + n) % 8) + 1]]
K01(k, i) == RotR64(SubSeq(k, 1, 8), i \div 2)
K23(k, i) == RotL64(SubSeq(k, 9, 16), (i - 1) \div 2)
C8_KeySchedule ==
  (ret = "c" /\ resets = 0) =>
    /\ c.k0[0] = Zero32 /\ c.k1[0] = Zero32
    /\ \A i \in 1..16 :
         /\ c.k0[i] = g[Sub32[Add32[SubSeq(K01(key, i), 1, 4), SubSeq(K23(key, i), 1, 4)],
                              kc[i + 1]]]
         /\ c.k1[i] = g[Add32[Sub32[SubSeq(K01(key, i), 5, 8), SubSeq(K23(key, i), 5, 8)],
                              kc[i + 1]]]

C8_Witness == ret = "c" /\ resets = 0 /\ key = Key2 /\ c.k1[16] # Zero32

\* C9: f returns (g3 + g2, g3) for a = r0 XOR k0, b = r1 XOR k1, c = a XOR b,
\* g1 = G(c), g2 = G(g1 + a), g3 = G(g2 + g1), and a second call on the same
\* arguments returns the same pair.
FOut(k0, k1, r0, r1) ==
  LET a == Xor32[r0, k0]
      b == Xor32[r1, k1]
      ab == Xor32[a, b]
      g1 == g[ab]
      g2 == g[Add32[g1, a]]
      g3 == g[Add32[g2, g1]]
  IN  <<Add32[g3, g2], g3>>
C9_RoundFunction ==
  /\ \A j \in 1..Len(fout) : fout[j] = FOut(fin[1], fin[2], fin[3], fin[4])
  /\ \A j \in 1..Len(fout) : fout[j] = fout[1]

C9_Witness ==
  /\ Len(fout) = 2
  /\ fin = <<<<1, 35, 69, 103>>, <<137, 171, 205, 239>>, <<255, 255, 255, 255>>, Zero32>>

\* C10: on an instance that has been Reset, Encrypt and Decrypt return
\* normally with the transform under all-zero round keys, whatever the key of
\* the instance was, and Decrypt still undoes Encrypt.
C10_UseAfterReset ==
  (at > 0 /\ op \in {"Encrypt", "Decrypt"}) =>
    /\ outcome = "ok"
    /\ dst = IF op = "Encrypt" THEN EncryptBuf(NewCipher, dst0, src)
                               ELSE DecryptBuf(NewCipher, dst0, src)
    /\ (op = "Decrypt" /\ prev.op = "Encrypt" /\ prev.resets > 0) => dst = prev.src

C10_Witness ==
  /\ at > 0 /\ op = "Decrypt" /\ prev.op = "Encrypt" /\ prev.resets > 0
  /\ key = Key2 /\ prev.src = Pt1 /\ dst = Pt1

\* C4: a call of Encrypt or Decrypt with a src or a dst buffer shorter than 16
\* bytes does not return normally: no call returns having decoded fewer than
\* 16 bytes of src or copied fewer than 16 bytes into dst.
C4_FailsLoudly ==
  op \in {"Encrypt", "Decrypt"} =>
    /\ (Len(src) < 16 \/ Len(dst0) < 16) => outcome # "ok"
    /\ outcome = "ok" => (nread = 16 /\ nwritten = 16)

===========================================================================
